---- MODULE Spec2Model ----
(***************************************************************************)
(* Token ledger and payment verification of the bot in src/main.py.        *)
(*                                                                         *)
(* The persistent state is the SQLite tables users, payments, referrals    *)
(* and content.  Every Database.execute_query call opens a connection and  *)
(* runs ONE statement, commits and closes, all under Database._lock: one   *)
(* statement is one atomic step, and nothing spans two statements.         *)
(* Handlers are run by the worker threads of telebot.TeleBot (constructed  *)
(* with its default threaded dispatch), so the statements of two handlers  *)
(* interleave.  A thread's position is pc[t] and its Python locals are     *)
(* loc[t].                                                                 *)
(*                                                                         *)
(* A step of the model is one execute_query call together with the Python  *)
(* code that follows it up to the next call.  Replies and notifications    *)
(* change no table; the reply a handler ends with is kept in loc[t].reply. *)
(* The table bot_stats (Database.update_stat) is written but never read by *)
(* the handlers modelled here and is left out.                             *)
(*                                                                         *)
(* The handlers share the variables of the tables; the mutex itself with   *)
(* main() and its polling loop (SpecLock, SpecLockFair), the module-level  *)
(* start-up code (SpecStartup) and the retry loop of safe_bot_action       *)
(* (SpecRetry) are modelled as layers of their own; SpecRerun is the       *)
(* /start handler when Telegram refuses its answers.                       *)
(***************************************************************************)
EXTENDS Integers, Sequences, FiniteSets

VARIABLES
    users,             \* table users: user_id -> row (reg = FALSE: no row)
    payments,          \* table payments: row k has id k (AUTOINCREMENT, no DELETE)
    referrals,         \* table referrals, in insertion order
    content,           \* table content: row k has id k (AUTOINCREMENT, no DELETE)
    user_last_action,  \* global dict user_last_action: user_id -> time, -1 = no key
    now,               \* time.time(), in whole seconds
    pc,                \* per worker thread: the statement it executes next
    loc,               \* per worker thread: the handler's local variables
    credits,           \* history: per payment id, update_tokens calls made by /verify
    bonuses,           \* history: per (referrer, referred), bonus credits applied
    events,            \* events the run may still dispatch (bounds the run)
    lock,              \* Database._lock: the thread that holds it, or "free"
    call,              \* per thread: where it is in a call that takes the lock
    env,               \* the process environment Config reads
    phase,             \* how far the start-up code and main() have come
    faults,            \* answers of start_command that may still fail to be sent
    retry_count,       \* main(): polling failures counted so far
    shutdown_flag      \* the threading.Event signal_handler sets

vars == <<users, payments, referrals, content, user_last_action, now, pc, loc, credits,
          bonuses, events, lock, call, env, phase, faults, retry_count, shutdown_flag>>

db == <<users, payments, referrals, content>>

\* The mutex layer and the start-up code, which the handlers' steps leave alone
\* (a handler step is the body of one execute_query call, lock taken and released).
mainthread == <<lock, call, env, phase, retry_count, shutdown_flag>>

\* What a handler step that sends no answer of start_command leaves alone.
outside == <<mainthread, faults>>

-----------------------------------------------------------------------------
(* Bounds of the model *)

MaxEvents == 4          \* events of a run that starts with an empty database
MaxLedgerEvents == 3    \* events of a run that starts with registered accounts
MaxStartEvents == 4     \* events of a run of /start events alone
MaxPayments == 2         \* rows of table payments
MaxNow == 1              \* seconds that pass during a run of purchases and proofs
MaxContent == 2          \* rows of table content
MaxContentEvents == 3    \* events of a run of uploads and content requests
MaxAdminEvents == 2      \* events of a run of admin operations
MaxLockCalls == 4        \* execute_query calls the workers make in a run of the mutex layer
MaxFaults == 2           \* answers of start_command that fail in a run
MaxRerunEvents == 3      \* events of a run of /start events with failing answers
MaxRetryEvents == 3      \* calls of a function decorated with safe_bot_action in a run

(* Program constants *)

ADMIN_ID == 1
RATE_LIMIT_SECONDS == 2
bonus_tokens == 5
MAX_RETRIES == 3         \* Config.MAX_RETRIES, its default
max_retries == 5         \* main(): polling failures after which it gives up

Threads == {"w1", "w2"}
LockThreads == Threads \cup {"main"}   \* the threads that call into Database
UserIds == {1, 2}
Codes == {"CODE1", "CODE2"}
NULL == 0
NoKey == -1

(* Inputs the events are drawn from *)
Amounts == {-5, 5}
Bonuses == {0, 10}
Deeplinks == {"d1", "d2"}   \* md5 prefixes the uploads and the links carry
Prices == {0, 10}           \* TOKENS_REQUIRED of an upload caption
Balances == {0, 3, 10}      \* tokens of an account when the run starts
BuyData == {"buy_100", "buy_500", "buy_tokens"}

packages ==
    [k \in {"buy_100", "buy_500", "buy_1000", "buy_2000"} |->
        CASE k = "buy_100"  -> [tokens |-> 100,  price |-> 10]
          [] k = "buy_500"  -> [tokens |-> 500,  price |-> 45]
          [] k = "buy_1000" -> [tokens |-> 1000, price |-> 80]
          [] k = "buy_2000" -> [tokens |-> 2000, price |-> 150]]

-----------------------------------------------------------------------------
(* Rows *)

NoUser ==
    [reg |-> FALSE, tokens |-> 0, referral_code |-> "", referred_by |-> NULL,
     total_spent |-> 0, total_earned |-> 0]

\* The same row with a sign-up grant of 10 tokens.
NewUserRowSignUpGrant(code, referred_by) ==
    [reg |-> TRUE, tokens |-> 10, referral_code |-> code, referred_by |-> referred_by,
     total_spent |-> 0, total_earned |-> 0]

\* A row as INSERT OR REPLACE INTO users writes it: the columns it does not
\* name take their DEFAULT (tokens 0, total_spent 0, total_earned 0).
NewUserRow(code, referred_by) ==
    [reg |-> TRUE, tokens |-> 0, referral_code |-> code, referred_by |-> referred_by,
     total_spent |-> 0, total_earned |-> 0]

NewPaymentRow(user_id, package) ==
    [user_id |-> user_id, amount |-> package.price, tokens |-> package.tokens,
     status |-> "pending", created_at |-> now, verified_at |-> FALSE,
     verified_by |-> NULL, rejection_reason |-> ""]

NoLocals ==
    [op |-> "none", caller |-> NULL, user_id |-> NULL, payment_id |-> 0,
     action |-> "", amount |-> 0, tokens |-> 0, current_tokens |-> 0,
     param |-> "", referred_by |-> NULL, current_time |-> 0, reply |-> "",
     seen |-> "",   \* history: the status /verify or /reject found its payment in
     existed |-> FALSE,  \* history: the account had a row when its /start arrived
     created |-> 0,      \* history: the id of the row the purchase inserted, 0 if none
     deeplink |-> "", tokens_required |-> 0, needed_tokens |-> 0,
     wrapper |-> "",     \* the branch of the rate_limit wrapper that called the handler
     attempt |-> 0,      \* safe_bot_action: the loop variable
     error |-> "none"]   \* safe_bot_action: what the last call of func raised

PaymentIds == 1..Len(payments)

Idle(t) == pc[t] = "idle"
Quiescent == \A t \in Threads : Idle(t)

\* The worker pool hands an event to a free worker; the workers are
\* interchangeable, so the first free one in a fixed order takes it.
FreeWorker(t) ==
    /\ Idle(t)
    /\ events > 0
    /\ t = "w2" => ~Idle("w1")

Goto(t, label, newloc) ==
    /\ pc' = [pc EXCEPT ![t] = label]
    /\ loc' = [loc EXCEPT ![t] = newloc]

\* The handler returns: its locals are gone, the reply it sent stays on record.
Return(t, reply) ==
    Goto(t, "idle", [NoLocals EXCEPT !.op = loc[t].op,
                                     !.user_id = loc[t].user_id,
                                     !.payment_id = loc[t].payment_id,
                                     !.seen = loc[t].seen,
                                     !.reply = reply])

\* After its last statement the handler sends the user a message and replies to
\* the admin. The send is delivered and the handler returns, or it raises (the
\* user blocked the bot, the network is down) and control passes to the except
\* branch around it.
Notify(t, reply) ==
    \/ Return(t, reply)
    \/ Goto(t, "n_failed", [loc[t] EXCEPT !.reply = reply])

-----------------------------------------------------------------------------
(* Foreign keys (PRAGMA foreign_keys = ON on every connection) *)

\* Some child row references users.user_id = u.
Referenced(u) ==
    \/ \E k \in PaymentIds : payments[k].user_id = u \/ payments[k].verified_by = u
    \/ \E i \in 1..Len(referrals) :
           referrals[i].referrer_id = u \/ referrals[i].referred_id = u
    \/ \E k \in 1..Len(content) : content[k].created_by = u

-----------------------------------------------------------------------------
(* SQL statements, as functions of the tables they read *)

\* SELECT * FROM users WHERE user_id = ?  (a row, or NoUser for None)
get_user(user_id) == users[user_id]

\* SELECT * FROM users WHERE referral_code = ?  -> the matching user ids
get_user_by_referral(code) ==
    {u \in UserIds : users[u].reg /\ users[u].referral_code = code}

\* INSERT OR REPLACE INTO users (user_id, ..., referral_code, referred_by, ...):
\* REPLACE deletes every row that conflicts on the PRIMARY KEY (user_id) or on
\* UNIQUE(referral_code), then inserts.  The foreign keys are checked when the
\* statement ends: the new row stands in for the old row of the same user_id,
\* a deleted row of ANOTHER user that is still referenced fails the statement
\* (IntegrityError, rolled back by execute_query, nothing changes).
InsertOrReplaceUser(user_id, code, referred_by) ==
    LET victims == get_user_by_referral(code) \ {user_id}
    IN  IF \E v \in victims : Referenced(v)
        THEN users
        ELSE [u \in UserIds |->
                 IF u = user_id THEN NewUserRow(code, referred_by)
                 ELSE IF u \in victims THEN NoUser
                 ELSE users[u]]

\* SELECT id FROM referrals WHERE referrer_id = ? AND referred_id = ?
ReferralExists(referrer_id, referred_id) ==
    \E i \in 1..Len(referrals) :
        /\ referrals[i].referrer_id = referrer_id
        /\ referrals[i].referred_id = referred_id

\* UPDATE users SET tokens = tokens + ?, total_earned = total_earned + ?
\* WHERE user_id = ?   (no row: nothing is updated)
CreditReferrer(referrer_id) ==
    IF users[referrer_id].reg
    THEN [users EXCEPT ![referrer_id].tokens = @ + bonus_tokens,
                       ![referrer_id].total_earned = @ + bonus_tokens]
    ELSE users

\* INSERT INTO referrals (referrer_id, referred_id, tokens_earned): fails on
\* UNIQUE(referrer_id, referred_id) and on either foreign key.
InsertReferral(referrer_id, referred_id) ==
    IF \/ ReferralExists(referrer_id, referred_id)
       \/ ~users[referrer_id].reg
       \/ ~users[referred_id].reg
    THEN referrals
    ELSE Append(referrals, [referrer_id |-> referrer_id, referred_id |-> referred_id,
                            tokens_earned |-> bonus_tokens])

-----------------------------------------------------------------------------
(* /start: rate_limit wrapper, start_command, Database.create_user,        *)
(* Database.add_referral_bonus                                             *)

RateLimited(user_id, current_time) ==
    /\ user_last_action[user_id] # NoKey
    /\ current_time - user_last_action[user_id] < RATE_LIMIT_SECONDS

\* First statement of start_command: the referral lookup when the message
\* carries a parameter, the existence check otherwise.
StartEntry(param) == IF param # "" THEN "s_referrer" ELSE "s_get_user"

\* func(message) of the rate_limit wrapper: the first statement of the handler
\* it decorates (start_command, which hands a content_ parameter to
\* handle_content_deeplink, or handle_payment_screenshot).
Wrapped(l) ==
    IF l.op = "photo" THEN "ph_select"
    ELSE IF l.op = "preview" THEN "c_select"
    ELSE StartEntry(l.param)

\* start_command sends its answer with bot.reply_to inside its try.  The reply
\* is delivered and the handler returns; or it raises (the user blocked the
\* bot, the network is down) and the except branch sends the error notice with
\* a bot.reply_to of its own, which is delivered, or raises in turn and leaves
\* start_command.  The wrapper called the handler inside its own try: there
\* its except branch catches what start_command raised and calls func(message)
\* once more; what the handler raises in that second call leaves the wrapper.
Reply(t, reply) ==
    \/ /\ Return(t, reply)
       /\ faults' = faults
    \/ /\ faults > 0
       /\ faults' = faults - 1
       /\ \/ Return(t, "error")
          \/ /\ loc[t].wrapper = "try"
             /\ Goto(t, StartEntry(loc[t].param),
                     [loc[t] EXCEPT !.wrapper = "except", !.referred_by = NULL])
          \/ /\ loc[t].wrapper = "except"
             /\ Return(t, "raised")

\* An inbound /start [param] from user_id reaches the rate_limit wrapper.
StartDispatch(t, user_id, param) ==
    /\ FreeWorker(t)
    /\ events' = events - 1
    /\ LET l == [NoLocals EXCEPT !.op = "start", !.caller = user_id,
                                 !.user_id = user_id, !.param = param,
                                 !.current_time = now,
                                 !.existed = users[user_id].reg]
       IN  IF RateLimited(user_id, now)
           THEN \* bot.reply_to the wait notice and return; when that reply
                \* raises, the except branch runs the handler all the same.
                \/ Goto(t, "idle", [l EXCEPT !.reply = "rate_limited", !.param = "",
                                             !.current_time = 0, !.existed = FALSE])
                \/ Goto(t, StartEntry(param), [l EXCEPT !.wrapper = "except"])
           ELSE Goto(t, "rl_set", l)
    /\ UNCHANGED <<db, user_last_action, now, credits, bonuses, outside>>

\* user_last_action[user_id] = current_time
RateLimitSet(t) ==
    /\ pc[t] = "rl_set"
    /\ user_last_action' = [user_last_action EXCEPT ![loc[t].user_id] = loc[t].current_time]
    /\ Goto(t, Wrapped(loc[t]), [loc[t] EXCEPT !.wrapper = "try"])
    /\ UNCHANGED <<db, now, credits, bonuses, events, outside>>

\* The same lookup without its "and referrer[0] != user_id".
StartReferrerAnyone(t) ==
    /\ pc[t] = "s_referrer"
    /\ LET found == get_user_by_referral(loc[t].param)
       IN  \/ /\ found = {}
              /\ Goto(t, "s_get_user", loc[t])
           \/ \E r \in found : Goto(t, "s_get_user", [loc[t] EXCEPT !.referred_by = r])
    /\ UNCHANGED <<db, user_last_action, now, credits, bonuses, events, outside>>

\* referrer = db.get_user_by_referral(referral_code); not yourself
StartReferrer(t) ==
    /\ pc[t] = "s_referrer"
    /\ LET found == get_user_by_referral(loc[t].param) \ {loc[t].user_id}
       IN  \/ /\ found = {}
              /\ Goto(t, "s_get_user", loc[t])
           \/ \E r \in found : Goto(t, "s_get_user", [loc[t] EXCEPT !.referred_by = r])
    /\ UNCHANGED <<db, user_last_action, now, credits, bonuses, events, outside>>

\* existing_user = db.get_user(user_id): welcome back, nothing written
StartGetUser(t) ==
    /\ pc[t] = "s_get_user"
    /\ IF get_user(loc[t].user_id).reg
       THEN Reply(t, "welcome_back")
       ELSE Goto(t, "s_insert", loc[t]) /\ UNCHANGED faults
    /\ UNCHANGED <<db, user_last_action, now, credits, bonuses, events, mainthread>>

\* create_user: generate_referral_code (md5 of id and clock, any code) and the
\* INSERT OR REPLACE; then add_referral_bonus when referred_by is set.
StartInsert(t) ==
    /\ pc[t] = "s_insert"
    /\ \E code \in Codes :
           users' = InsertOrReplaceUser(loc[t].user_id, code, loc[t].referred_by)
    /\ IF loc[t].referred_by # NULL
       THEN Goto(t, "rb_existing", loc[t]) /\ UNCHANGED faults
       ELSE Reply(t, "registered")
    /\ UNCHANGED <<payments, referrals, content, user_last_action, now, credits, bonuses, events, mainthread>>

\* add_referral_bonus: "Check if referral already exists"
BonusExisting(t) ==
    /\ pc[t] = "rb_existing"
    /\ IF ReferralExists(loc[t].referred_by, loc[t].user_id)
       THEN Reply(t, "registered")
       ELSE Goto(t, "rb_credit", loc[t]) /\ UNCHANGED faults
    /\ UNCHANGED <<db, user_last_action, now, credits, bonuses, events, mainthread>>

\* add_referral_bonus: "Add tokens to referrer"
BonusCredit(t) ==
    /\ pc[t] = "rb_credit"
    /\ users' = CreditReferrer(loc[t].referred_by)
    /\ bonuses' = IF users[loc[t].referred_by].reg
                  THEN [bonuses EXCEPT ![<<loc[t].referred_by, loc[t].user_id>>] = @ + 1]
                  ELSE bonuses
    /\ Goto(t, "rb_insert", loc[t])
    /\ UNCHANGED <<payments, referrals, content, user_last_action, now, credits, events, outside>>

\* add_referral_bonus: "Record referral"; create_user and start_command finish
BonusInsert(t) ==
    /\ pc[t] = "rb_insert"
    /\ referrals' = InsertReferral(loc[t].referred_by, loc[t].user_id)
    /\ Reply(t, "registered")
    /\ UNCHANGED <<users, payments, content, user_last_action, now, credits, bonuses, events, mainthread>>

-----------------------------------------------------------------------------
(* Purchase: handle_callbacks -> handle_buy_callback *)

\* INSERT INTO payments (user_id, amount, tokens, status) VALUES (?, ?, ?, 'pending')
\* fails on the foreign key when the buyer has no users row.
InsertPayment(user_id, package) ==
    IF users[user_id].reg
    THEN Append(payments, NewPaymentRow(user_id, package))
    ELSE payments

\* SELECT id FROM payments WHERE user_id = ? AND status = 'pending'
\* ORDER BY created_at DESC LIMIT 1: a newest pending payment of the user
\* (created_at has a resolution of one second; ties are in no stated order).
LatestPending(user_id) ==
    LET mine == {k \in PaymentIds : /\ payments[k].user_id = user_id
                                    /\ payments[k].status = "pending"}
    IN  {k \in mine : \A j \in mine : payments[j].created_at <= payments[k].created_at}

\* A callback whose data starts with buy_ (the menu button buy_tokens included).
BuyDispatch(t, user_id, data) ==
    /\ FreeWorker(t)
    /\ events' = events - 1
    /\ LET l == [NoLocals EXCEPT !.op = "buy", !.caller = user_id,
                                 !.user_id = user_id, !.param = data]
       IN  IF data \notin DOMAIN packages
           THEN Goto(t, "idle", [l EXCEPT !.reply = "invalid_package", !.param = "",
                                          !.caller = NULL])
           ELSE /\ Len(payments) < MaxPayments
                /\ Goto(t, "p_insert", l)
    /\ UNCHANGED <<db, user_last_action, now, credits, bonuses, outside>>

\* The INSERT ... RETURNING id goes through execute_query, which fetches rows
\* of SELECT statements only: the row RETURNING produces is left unread, and
\* the commit that follows either goes through or is refused ("SQL statements
\* in progress", then rolled back), depending on the sqlite3 module and
\* library the process runs on.  execute_query returns [] in both cases.
BuyInsert(t) ==
    /\ pc[t] = "p_insert"
    /\ \/ payments' = InsertPayment(loc[t].user_id, packages[loc[t].param])
       \/ payments' = payments
    /\ Goto(t, "p_select",
            [loc[t] EXCEPT !.created = IF payments' # payments THEN Len(payments') ELSE 0])
    /\ UNCHANGED <<users, referrals, content, user_last_action, now, credits, bonuses, events, outside>>

\* "Fallback": payment_ref from the newest pending payment, else "Unknown".
BuySelect(t) ==
    /\ pc[t] = "p_select"
    /\ \/ /\ LatestPending(loc[t].user_id) = {}
          /\ Return(t, "instructions")
       \/ \E k \in LatestPending(loc[t].user_id) :
              /\ pc' = [pc EXCEPT ![t] = "idle"]
              /\ loc' = [loc EXCEPT ![t] = [NoLocals EXCEPT !.op = "buy",
                                                            !.user_id = loc[t].user_id,
                                                            !.payment_id = k,
                                                            !.reply = "instructions"]]
    /\ UNCHANGED <<db, user_last_action, now, credits, bonuses, events, outside>>

-----------------------------------------------------------------------------
(* Payment proof: rate_limit wrapper, handle_payment_screenshot *)

\* A photo message from user_id reaches the rate_limit wrapper.
PhotoDispatch(t, user_id) ==
    /\ FreeWorker(t)
    /\ events' = events - 1
    /\ LET l == [NoLocals EXCEPT !.op = "photo", !.caller = user_id,
                                 !.user_id = user_id, !.current_time = now]
       IN  IF RateLimited(user_id, now)
           THEN \/ Goto(t, "idle", [l EXCEPT !.reply = "rate_limited", !.current_time = 0])
                \/ Goto(t, "ph_select", [l EXCEPT !.wrapper = "except"])
           ELSE Goto(t, "rl_set", l)
    /\ UNCHANGED <<db, user_last_action, now, credits, bonuses, outside>>

\* SELECT p.*, u.first_name FROM payments p JOIN users u ON ...
\* WHERE p.user_id = ? AND p.status = 'pending' ORDER BY p.created_at DESC LIMIT 1
\* (a payment's owner has a users row: the foreign key keeps it).  No row: the
\* "No Pending Payments Found" reply.  A row: bot.send_message(ADMIN_ID, ...)
\* and bot.forward_message relay it with its id and the user is told
\* "received", or the send raises and the user is told to send it again.
PhotoSelect(t) ==
    /\ pc[t] = "ph_select"
    /\ \/ /\ LatestPending(loc[t].user_id) = {}
          /\ Return(t, "no_pending")
       \/ \E k \in LatestPending(loc[t].user_id) :
              \/ Goto(t, "idle", [NoLocals EXCEPT !.op = "photo",
                                                  !.user_id = loc[t].user_id,
                                                  !.payment_id = k,
                                                  !.reply = "relayed"])
              \/ Return(t, "relay_error")
    /\ UNCHANGED <<db, user_last_action, now, credits, bonuses, events, outside>>

\* A second passes on the clock that time.time() and CURRENT_TIMESTAMP read.
Tick ==
    /\ now < MaxNow
    /\ now' = now + 1
    /\ UNCHANGED <<db, user_last_action, pc, loc, credits, bonuses, events, outside>>

-----------------------------------------------------------------------------
(* Database.update_tokens: two statements *)

\* The same UPDATE writing the amount over the balance: SET tokens = ?
AddTokensOverwriting(user_id, tokens) ==
    IF users[user_id].reg
    THEN [users EXCEPT ![user_id].tokens = tokens]
    ELSE users

\* UPDATE users SET tokens = tokens + ?, last_activity = ... WHERE user_id = ?
AddTokens(user_id, tokens) ==
    IF users[user_id].reg
    THEN [users EXCEPT ![user_id].tokens = @ + tokens]
    ELSE users

\* if tokens > 0: total_earned += tokens  else: total_spent += abs(tokens)
AddLifetime(user_id, tokens) ==
    IF ~users[user_id].reg THEN users
    ELSE IF tokens > 0
         THEN [users EXCEPT ![user_id].total_earned = @ + tokens]
         ELSE [users EXCEPT ![user_id].total_spent = @ + (0 - tokens)]

UpdateTokensBalance(t) ==
    /\ pc[t] = "ut_tokens"
    /\ users' = AddTokens(loc[t].user_id, loc[t].tokens)
    /\ credits' = IF loc[t].op = "verify"
                  THEN [credits EXCEPT ![loc[t].payment_id] = @ + 1]
                  ELSE credits
    /\ Goto(t, "ut_stats", loc[t])
    /\ UNCHANGED <<payments, referrals, content, user_last_action, now, bonuses, events, outside>>

\* The second statement; then the caller notifies and replies.
UpdateTokensLifetime(t) ==
    /\ pc[t] = "ut_stats"
    /\ users' = AddLifetime(loc[t].user_id, loc[t].tokens)
    /\ Notify(t, IF loc[t].op = "verify" THEN "verified" ELSE "tokens_updated")
    /\ UNCHANGED <<payments, referrals, content, user_last_action, now, credits, bonuses, events, outside>>

-----------------------------------------------------------------------------
(* admin_only *)

\* The same decorator without its comparison with config.ADMIN_ID.
admin_onlyAnyone(t, caller, l, entry) ==
    /\ events' = events - 1
    /\ Goto(t, entry, l)
    /\ UNCHANGED <<db, user_last_action, now, credits, bonuses, outside>>

\* admin_only: message.from_user.id != config.ADMIN_ID -> "Access denied"
admin_only(t, caller, l, entry) ==
    /\ events' = events - 1
    /\ IF caller # ADMIN_ID
       THEN Goto(t, "idle", [NoLocals EXCEPT !.op = l.op, !.reply = "denied"])
       ELSE Goto(t, entry, l)
    /\ UNCHANGED <<db, user_last_action, now, credits, bonuses, outside>>

-----------------------------------------------------------------------------
(* Content: /admin_upload, handle_admin_upload, handle_content_deeplink,   *)
(* and the content_ callback                                               *)

ContentIds == 1..Len(content)

\* SELECT * FROM content WHERE deeplink = ? AND is_active = 1
ActiveContent(deeplink) ==
    {k \in ContentIds : content[k].deeplink = deeplink /\ content[k].is_active = 1}

\* The same INSERT into a table whose deeplink column is not UNIQUE.
InsertContentAnyDeeplink(tokens_required, deeplink) ==
    IF ~users[ADMIN_ID].reg
    THEN content
    ELSE Append(content, [tokens_required |-> tokens_required, deeplink |-> deeplink,
                          created_by |-> ADMIN_ID, views |-> 0, is_active |-> 1])

\* INSERT INTO content (title, description, file_id, file_type, tokens_required,
\* deeplink, created_by) VALUES (..., config.ADMIN_ID): fails on UNIQUE(deeplink)
\* and on the foreign key created_by -> users; views and is_active take their
\* defaults 0 and 1.
InsertContent(tokens_required, deeplink) ==
    IF \/ \E k \in ContentIds : content[k].deeplink = deeplink
       \/ ~users[ADMIN_ID].reg
    THEN content
    ELSE Append(content, [tokens_required |-> tokens_required, deeplink |-> deeplink,
                          created_by |-> ADMIN_ID, views |-> 0, is_active |-> 1])

\* /admin_upload and the file message that answers it: admin_only guards the
\* command; the caption gives TOKENS_REQUIRED >= 0, and the deeplink is the
\* first 12 hex digits of md5(file_id, time.time(), title), which repeat when
\* the three repeat (or the prefixes collide).
UploadDispatch(t, caller, tokens_required, deeplink) ==
    /\ FreeWorker(t)
    /\ Len(content) < MaxContent
    /\ admin_only(t, caller,
                  [NoLocals EXCEPT !.op = "upload", !.caller = caller,
                                   !.tokens_required = tokens_required,
                                   !.deeplink = deeplink],
                  "u_insert")

\* The INSERT through execute_query, which swallows a failure; update_stat
\* counts the upload and the admin is sent "Content Uploaded Successfully"
\* with the access link either way.
UploadInsert(t) ==
    /\ pc[t] = "u_insert"
    /\ content' = InsertContent(loc[t].tokens_required, loc[t].deeplink)
    /\ Goto(t, "idle", [NoLocals EXCEPT !.op = "upload", !.deeplink = loc[t].deeplink,
                                        !.reply = "uploaded"])
    /\ UNCHANGED <<users, payments, referrals, user_last_action, now, credits, bonuses,
                   events, outside>>

\* /start content_<deeplink> from user_id reaches the rate_limit wrapper;
\* start_command hands it to handle_content_deeplink, which takes the text
\* after the first underscore for the deeplink.
PreviewDispatch(t, user_id, deeplink) ==
    /\ FreeWorker(t)
    /\ events' = events - 1
    /\ LET l == [NoLocals EXCEPT !.op = "preview", !.caller = user_id,
                                 !.user_id = user_id, !.deeplink = deeplink,
                                 !.current_time = now]
       IN  IF RateLimited(user_id, now)
           THEN \/ Goto(t, "idle", [NoLocals EXCEPT !.op = "preview",
                                                    !.user_id = user_id,
                                                    !.reply = "rate_limited"])
                \/ Goto(t, "c_select", [l EXCEPT !.wrapper = "except"])
           ELSE Goto(t, "rl_set", l)
    /\ UNCHANGED <<db, user_last_action, now, credits, bonuses, outside>>

\* What handle_content_deeplink leaves on record when it returns.
Answered(l, reply, needed_tokens) ==
    [NoLocals EXCEPT !.op = "preview", !.user_id = l.user_id, !.deeplink = l.deeplink,
                     !.tokens_required = l.tokens_required,
                     !.current_tokens = l.current_tokens,
                     !.needed_tokens = needed_tokens, !.reply = reply]

\* content = SELECT * FROM content WHERE deeplink = ? AND is_active = 1;
\* no row: "Content Not Found".
PreviewSelect(t) ==
    /\ pc[t] = "c_select"
    /\ \/ /\ ActiveContent(loc[t].deeplink) = {}
          /\ Goto(t, "idle", Answered(loc[t], "content_not_found", 0))
       \/ \E k \in ActiveContent(loc[t].deeplink) :
              Goto(t, "c_get_user",
                   [loc[t] EXCEPT !.tokens_required = content[k].tokens_required])
    /\ UNCHANGED <<db, user_last_action, now, credits, bonuses, events, outside>>

\* The same answer asking for the whole price.
PreviewGetUserFullPrice(t) ==
    /\ pc[t] = "c_get_user"
    /\ LET user == get_user(loc[t].user_id)
           l == [loc[t] EXCEPT !.current_tokens = user.tokens]
       IN  IF ~user.reg
           THEN Goto(t, "idle", Answered(loc[t], "register_first", 0))
           ELSE IF user.tokens >= loc[t].tokens_required
           THEN Goto(t, "idle", Answered(l, "enough", 0))
           ELSE Goto(t, "idle", Answered(l, "insufficient", loc[t].tokens_required))
    /\ UNCHANGED <<db, user_last_action, now, credits, bonuses, events, outside>>

\* user = db.get_user(user_id); none: "register first".  user_tokens = user[3]:
\* the "Access Content" button when user_tokens >= tokens_required, otherwise
\* "Insufficient tokens" and needed_tokens = tokens_required - user_tokens on
\* the buy button.  The handler writes nothing.
PreviewGetUser(t) ==
    /\ pc[t] = "c_get_user"
    /\ LET user == get_user(loc[t].user_id)
           l == [loc[t] EXCEPT !.current_tokens = user.tokens]
       IN  IF ~user.reg
           THEN Goto(t, "idle", Answered(loc[t], "register_first", 0))
           ELSE IF user.tokens >= loc[t].tokens_required
           THEN Goto(t, "idle", Answered(l, "enough", 0))
           ELSE Goto(t, "idle",
                     Answered(l, "insufficient", loc[t].tokens_required - user.tokens))
    /\ UNCHANGED <<db, user_last_action, now, credits, bonuses, events, outside>>

\* What the content_ callback leaves on record: the balance it found.
Unlocked(user_id, deeplink, reply) ==
    [NoLocals EXCEPT !.op = "unlock", !.user_id = user_id, !.deeplink = deeplink,
                     !.current_tokens = get_user(user_id).tokens, !.reply = reply]

\* The same callback served by a handler that takes the price and stops.
ContentCallbackDebiting(t, user_id, deeplink) ==
    /\ FreeWorker(t)
    /\ events' = events - 1
    /\ Goto(t, "idle", Unlocked(user_id, deeplink, "error"))
    /\ users' = IF ActiveContent(deeplink) = {} THEN users
                ELSE AddTokens(user_id,
                               0 - content[CHOOSE k \in ActiveContent(deeplink) : TRUE]
                                       .tokens_required)
    /\ UNCHANGED <<payments, referrals, content, user_last_action, now, credits, bonuses,
                   outside>>

\* A callback whose data starts with content_ (the "Access Content" button):
\* handle_callbacks answers the query and calls handle_content_callback, a name
\* that is defined nowhere; the NameError is caught by the handler's except
\* branch, which answers "An error occurred!".
ContentCallback(t, user_id, deeplink) ==
    /\ FreeWorker(t)
    /\ events' = events - 1
    /\ Goto(t, "idle", Unlocked(user_id, deeplink, "error"))
    /\ UNCHANGED <<db, user_last_action, now, credits, bonuses, outside>>

\* A callback whose data starts with admin_: handle_callbacks answers a caller
\* other than ADMIN_ID "Access denied!" and returns; for the admin it calls
\* handle_admin_callback, a name that is defined nowhere, and the except branch
\* answers "An error occurred!".
AdminCallback(t, caller) ==
    /\ FreeWorker(t)
    /\ events' = events - 1
    /\ Goto(t, "idle", [NoLocals EXCEPT !.op = "admin_callback",
                                        !.reply = IF caller # ADMIN_ID THEN "denied"
                                                  ELSE "error"])
    /\ UNCHANGED <<db, user_last_action, now, credits, bonuses, outside>>

-----------------------------------------------------------------------------
(* /verify and /reject *)

\* The status of the row a decision names ("" when there is no such row).
StatusOf(payment_id) ==
    IF payment_id \in PaymentIds THEN payments[payment_id].status ELSE ""

\* The same SELECT without its "AND p.status = 'pending'".
PendingPaymentAnyStatus(payment_id) ==
    /\ payment_id \in PaymentIds
    /\ users[payments[payment_id].user_id].reg

\* SELECT p.*, u.first_name, u.username FROM payments p JOIN users u
\* ON p.user_id = u.user_id WHERE p.id = ? AND p.status = 'pending'
PendingPayment(payment_id) ==
    /\ payment_id \in PaymentIds
    /\ payments[payment_id].status = "pending"
    /\ users[payments[payment_id].user_id].reg

\* UPDATE payments SET status = ?, verified_at = CURRENT_TIMESTAMP,
\* verified_by = ADMIN_ID [, rejection_reason = ?] WHERE id = ?
\* The WHERE names the id alone.  verified_by REFERENCES users: the statement
\* fails (nothing changes) when the administrator has no users row.
SetPaymentStatus(payment_id, status, reason) ==
    IF payment_id \in PaymentIds /\ users[ADMIN_ID].reg
    THEN [payments EXCEPT ![payment_id].status = status,
                          ![payment_id].verified_at = TRUE,
                          ![payment_id].verified_by = ADMIN_ID,
                          ![payment_id].rejection_reason =
                              IF status = "rejected" THEN reason ELSE @]
    ELSE payments

VerifyDispatch(t, caller, payment_id, bonus) ==
    /\ FreeWorker(t)
    /\ admin_only(t, caller,
                  [NoLocals EXCEPT !.op = "verify", !.caller = caller,
                                   !.payment_id = payment_id, !.amount = bonus],
                  "v_select")

\* "Get payment info": not found or already processed -> reply and return
VerifySelect(t) ==
    /\ pc[t] = "v_select"
    /\ IF PendingPayment(loc[t].payment_id)
       THEN Goto(t, "v_update",
                 [loc[t] EXCEPT !.user_id = payments[loc[t].payment_id].user_id,
                                !.tokens = payments[loc[t].payment_id].tokens + loc[t].amount,
                                !.seen = "pending"])
       ELSE Goto(t, "idle", [NoLocals EXCEPT !.op = "verify",
                                             !.payment_id = loc[t].payment_id,
                                             !.seen = StatusOf(loc[t].payment_id),
                                             !.reply = "already_processed"])
    /\ UNCHANGED <<db, user_last_action, now, credits, bonuses, events, outside>>

\* "Update payment status"; update_tokens(user_id, total_tokens) follows
VerifyUpdate(t) ==
    /\ pc[t] = "v_update"
    /\ payments' = SetPaymentStatus(loc[t].payment_id, "verified", "")
    /\ Goto(t, "ut_tokens", loc[t])
    /\ UNCHANGED <<users, referrals, content, user_last_action, now, credits, bonuses, events, outside>>

RejectDispatch(t, caller, payment_id) ==
    /\ FreeWorker(t)
    /\ admin_only(t, caller,
                  [NoLocals EXCEPT !.op = "reject", !.caller = caller,
                                   !.payment_id = payment_id],
                  "r_select")

RejectSelect(t) ==
    /\ pc[t] = "r_select"
    /\ IF PendingPayment(loc[t].payment_id)
       THEN Goto(t, "r_update",
                 [loc[t] EXCEPT !.user_id = payments[loc[t].payment_id].user_id,
                                !.seen = "pending"])
       ELSE Goto(t, "idle", [NoLocals EXCEPT !.op = "reject",
                                             !.payment_id = loc[t].payment_id,
                                             !.seen = StatusOf(loc[t].payment_id),
                                             !.reply = "already_processed"])
    /\ UNCHANGED <<db, user_last_action, now, credits, bonuses, events, outside>>

\* The same step taking the payment's tokens back from its owner.
RejectUpdateDebiting(t) ==
    /\ pc[t] = "r_update"
    /\ payments' = SetPaymentStatus(loc[t].payment_id, "rejected", "reason")
    /\ users' = AddTokens(loc[t].user_id, 0 - payments[loc[t].payment_id].tokens)
    /\ Notify(t, "rejected")
    /\ UNCHANGED <<referrals, content, user_last_action, now, credits, bonuses, events, outside>>

\* "Update payment status"; the notifications follow
RejectUpdate(t) ==
    /\ pc[t] = "r_update"
    /\ payments' = SetPaymentStatus(loc[t].payment_id, "rejected", "reason")
    /\ Notify(t, "rejected")
    /\ UNCHANGED <<users, referrals, content, user_last_action, now, credits, bonuses, events, outside>>

-----------------------------------------------------------------------------
(* Notifications of /verify, /reject and /admin_tokens *)

\* The except branch, undoing the decision the user could not be told about.
NotifyFailedUndoing(t) ==
    /\ pc[t] = "n_failed"
    /\ Return(t, loc[t].reply)
    /\ payments' = IF loc[t].payment_id \in PaymentIds
                   THEN [payments EXCEPT ![loc[t].payment_id].status = "pending"]
                   ELSE payments
    /\ users' = IF loc[t].payment_id \in PaymentIds THEN users
                ELSE AddTokens(loc[t].user_id, 0 - loc[t].tokens)
    /\ UNCHANGED <<referrals, content, user_last_action, now, credits, bonuses,
                   events, outside>>

\* The except branch: safe_send_message logs and returns None, /reject sets
\* notification_sent to the cross mark, /admin_tokens passes; the admin is
\* answered with the confirmation all the same.
NotifyFailed(t) ==
    /\ pc[t] = "n_failed"
    /\ Return(t, loc[t].reply)
    /\ UNCHANGED <<db, user_last_action, now, credits, bonuses, events, outside>>

-----------------------------------------------------------------------------
(* /admin_tokens add | remove | set *)

TokensDispatch(t, caller, action, user_id, amount) ==
    /\ FreeWorker(t)
    /\ admin_only(t, caller,
                  [NoLocals EXCEPT !.op = "tokens", !.caller = caller, !.action = action,
                                   !.user_id = user_id, !.amount = amount],
                  "a_get_user")

\* The change update_tokens is asked for, from the balance read before it.
TokenChange(action, amount, current_tokens) ==
    CASE action = "add"    -> amount
      [] action = "remove" -> 0 - amount
      [] action = "set"    -> amount - current_tokens

\* user = db.get_user(user_id); current_tokens = user[3]; the remove guard
TokensGetUser(t) ==
    /\ pc[t] = "a_get_user"
    /\ LET user == get_user(loc[t].user_id)
       IN  IF ~user.reg THEN Return(t, "not_found")
           ELSE IF loc[t].action = "remove" /\ user.tokens < loc[t].amount
                THEN Return(t, "insufficient")
           ELSE Goto(t, "ut_tokens",
                     [loc[t] EXCEPT !.current_tokens = user.tokens,
                                    !.tokens = TokenChange(loc[t].action, loc[t].amount,
                                                           user.tokens)])
    /\ UNCHANGED <<db, user_last_action, now, credits, bonuses, events, outside>>

\* An environment with every variable Config requires; ADMIN_ID names user 1.
FullEnv ==
    [BOT_TOKEN |-> "token", ADMIN_ID |-> "1", UPI_ID |-> "upi@bank",
     RATE_LIMIT_SECONDS |-> "unset"]

\* The handlers are modelled as written, registered on a polling TeleBot, with
\* no call inside the mutex layer (the start-up code that leads there is
\* modelled on its own, below).
Serving ==
    /\ lock = "free"
    /\ call = [t \in LockThreads |-> "out"]
    /\ env = FullEnv
    /\ phase = "serving"
    /\ faults = 0
    /\ retry_count = 0
    /\ shutdown_flag = FALSE

Init ==
    /\ users = [u \in UserIds |-> NoUser]
    /\ payments = <<>>
    /\ referrals = <<>>
    /\ user_last_action = [u \in UserIds |-> NoKey]
    /\ now = 0
    /\ pc = [t \in Threads |-> "idle"]
    /\ loc = [t \in Threads |-> NoLocals]
    /\ credits = [k \in 1..MaxPayments |-> 0]
    /\ bonuses = [p \in UserIds \X UserIds |-> 0]
    /\ content = <<>>
    /\ Serving
    /\ events = MaxEvents

\* The empty database, for a run of /start events alone.
InitStart ==
    /\ users = [u \in UserIds |-> NoUser]
    /\ payments = <<>>
    /\ referrals = <<>>
    /\ user_last_action = [u \in UserIds |-> NoKey]
    /\ now = 0
    /\ pc = [t \in Threads |-> "idle"]
    /\ loc = [t \in Threads |-> NoLocals]
    /\ credits = [k \in 1..MaxPayments |-> 0]
    /\ bonuses = [p \in UserIds \X UserIds |-> 0]
    /\ content = <<>>
    /\ Serving
    /\ events = MaxStartEvents

\* The database as /start events leave it: accounts with distinct referral
\* codes and nothing else.  The administrator may or may not have an account.
InitLedger ==
    /\ \E registered \in {{1, 2}, {2}} :
           /\ users = [u \in UserIds |->
                          IF u \in registered
                          THEN NewUserRow(IF u = 1 THEN "CODE1" ELSE "CODE2", NULL)
                          ELSE NoUser]
           /\ user_last_action = [u \in UserIds |-> IF u \in registered THEN 0 ELSE NoKey]
    /\ payments = <<>>
    /\ referrals = <<>>
    /\ now = 0
    /\ pc = [t \in Threads |-> "idle"]
    /\ loc = [t \in Threads |-> NoLocals]
    /\ credits = [k \in 1..MaxPayments |-> 0]
    /\ bonuses = [p \in UserIds \X UserIds |-> 0]
    /\ content = <<>>
    /\ Serving
    /\ events = MaxLedgerEvents

StartNext(t) ==
    \/ \E u \in UserIds, param \in Codes \cup {""} : StartDispatch(t, u, param)
    \/ RateLimitSet(t)
    \/ StartReferrer(t)
    \/ StartGetUser(t)
    \/ StartInsert(t)
    \/ BonusExisting(t)
    \/ BonusCredit(t)
    \/ BonusInsert(t)

LedgerNext(t) ==
    \/ \E u \in UserIds, data \in BuyData : BuyDispatch(t, u, data)
    \/ BuyInsert(t)
    \/ BuySelect(t)
    \/ \E c \in UserIds, k \in 1..MaxPayments, b \in Bonuses : VerifyDispatch(t, c, k, b)
    \/ VerifySelect(t)
    \/ VerifyUpdate(t)
    \/ \E c \in UserIds, k \in 1..MaxPayments : RejectDispatch(t, c, k)
    \/ RejectSelect(t)
    \/ RejectUpdate(t)
    \/ \E c \in UserIds, a \in {"add", "remove", "set"}, u \in UserIds, n \in Amounts :
           TokensDispatch(t, c, a, u, n)
    \/ TokensGetUser(t)
    \/ UpdateTokensBalance(t)
    \/ UpdateTokensLifetime(t)
    \/ NotifyFailed(t)

Next == \E t \in Threads : StartNext(t) \/ LedgerNext(t)

\* Every handler, from the empty database.
Spec == Init /\ [][Next]_vars

\* Registrations alone: /start with and without a referral code.
SpecStart == InitStart /\ [][\E t \in Threads : StartNext(t)]_vars

\* The empty database, for a run of /start events some of whose answers
\* Telegram refuses.
InitRerun ==
    /\ users = [u \in UserIds |-> NoUser]
    /\ payments = <<>>
    /\ referrals = <<>>
    /\ user_last_action = [u \in UserIds |-> NoKey]
    /\ now = 0
    /\ pc = [t \in Threads |-> "idle"]
    /\ loc = [t \in Threads |-> NoLocals]
    /\ credits = [k \in 1..MaxPayments |-> 0]
    /\ bonuses = [p \in UserIds \X UserIds |-> 0]
    /\ content = <<>>
    /\ lock = "free"
    /\ call = [t \in LockThreads |-> "out"]
    /\ env = FullEnv
    /\ phase = "serving"
    /\ faults = MaxFaults
    /\ retry_count = 0
    /\ shutdown_flag = FALSE
    /\ events = MaxRerunEvents

\* Registrations whose answers may fail to be sent.
SpecRerun == InitRerun /\ [][\E t \in Threads : StartNext(t)]_vars

\* Purchases, admin decisions and admin token operations on registered accounts.
SpecLedger == InitLedger /\ [][\E t \in Threads : LedgerNext(t)]_vars

\* A restarted process: the accounts and their balances are in the database,
\* the content table is empty and user_last_action, which lives in memory, is
\* empty.  The administrator may or may not have an account.
InitContent ==
    /\ \E registered \in {{1, 2}, {2}}, balance \in Balances :
           users = [u \in UserIds |->
                       IF u \in registered
                       THEN [NewUserRow(IF u = 1 THEN "CODE1" ELSE "CODE2", NULL)
                                EXCEPT !.tokens = IF u = 2 THEN balance ELSE 0,
                                       !.total_earned = IF u = 2 THEN balance ELSE 0]
                       ELSE NoUser]
    /\ user_last_action = [u \in UserIds |-> NoKey]
    /\ payments = <<>>
    /\ referrals = <<>>
    /\ now = 0
    /\ pc = [t \in Threads |-> "idle"]
    /\ loc = [t \in Threads |-> NoLocals]
    /\ credits = [k \in 1..MaxPayments |-> 0]
    /\ bonuses = [p \in UserIds \X UserIds |-> 0]
    /\ content = <<>>
    /\ Serving
    /\ events = MaxContentEvents

ContentNext(t) ==
    \/ \E c \in UserIds, n \in Prices, d \in Deeplinks : UploadDispatch(t, c, n, d)
    \/ UploadInsert(t)
    \/ \E u \in UserIds, d \in Deeplinks : PreviewDispatch(t, u, d)
    \/ RateLimitSet(t)
    \/ PreviewSelect(t)
    \/ PreviewGetUser(t)
    \/ \E u \in UserIds, d \in Deeplinks : ContentCallback(t, u, d)

\* Uploads, content requests and unlock callbacks on registered accounts.
SpecContent == InitContent /\ [][\E t \in Threads : ContentNext(t)]_vars

\* Registered accounts and one pending purchase of user 2, for a run of admin
\* operations.  The administrator may or may not have an account.
InitAdmin ==
    /\ \E registered \in {{1, 2}, {2}} :
           /\ users = [u \in UserIds |->
                          IF u \in registered
                          THEN NewUserRow(IF u = 1 THEN "CODE1" ELSE "CODE2", NULL)
                          ELSE NoUser]
           /\ user_last_action = [u \in UserIds |-> IF u \in registered THEN 0 ELSE NoKey]
    /\ now = 0
    /\ payments = <<NewPaymentRow(2, packages["buy_100"])>>
    /\ referrals = <<>>
    /\ pc = [t \in Threads |-> "idle"]
    /\ loc = [t \in Threads |-> NoLocals]
    /\ credits = [k \in 1..MaxPayments |-> 0]
    /\ bonuses = [p \in UserIds \X UserIds |-> 0]
    /\ content = <<>>
    /\ Serving
    /\ events = MaxAdminEvents

AdminNext(t) ==
    \/ \E c \in UserIds, k \in 1..MaxPayments, b \in Bonuses : VerifyDispatch(t, c, k, b)
    \/ VerifySelect(t)
    \/ VerifyUpdate(t)
    \/ \E c \in UserIds, k \in 1..MaxPayments : RejectDispatch(t, c, k)
    \/ RejectSelect(t)
    \/ RejectUpdate(t)
    \/ \E c \in UserIds, a \in {"add", "remove", "set"}, u \in UserIds, n \in Amounts :
           TokensDispatch(t, c, a, u, n)
    \/ TokensGetUser(t)
    \/ UpdateTokensBalance(t)
    \/ UpdateTokensLifetime(t)
    \/ NotifyFailed(t)
    \/ \E c \in UserIds, n \in Prices, d \in Deeplinks : UploadDispatch(t, c, n, d)
    \/ UploadInsert(t)
    \/ \E c \in UserIds : AdminCallback(t, c)

\* Every admin entry point, called by the admin and by another user.
SpecAdmin == InitAdmin /\ [][\E t \in Threads : AdminNext(t)]_vars

-----------------------------------------------------------------------------
(* Start-up: Config, setup_logging *)

\* int(s) for the strings the environments below hold; int raises ValueError
\* on any other string.
IntOf == [s \in {"0", "1", "2"} |-> CASE s = "0" -> 0 [] s = "1" -> 1 [] s = "2" -> 2]

\* Config._get_int_env: int(os.getenv(key, default)), default on ValueError
\* and TypeError.  "unset" stands for a variable that is not in the environment.
get_int_env(value, default) ==
    IF value \in DOMAIN IntOf THEN IntOf[value] ELSE default

\* Config.__init__: the attributes that are validated or parsed.
ConfigOf(e) ==
    [BOT_TOKEN |-> e.BOT_TOKEN,
     ADMIN_ID |-> get_int_env(e.ADMIN_ID, 0),
     UPI_ID |-> e.UPI_ID,
     RATE_LIMIT_SECONDS |-> get_int_env(e.RATE_LIMIT_SECONDS, 2)]

\* The same validation without its UPI_ID check.
ConfigErrorsNoRecipient(c) ==
    {error \in {"BOT_TOKEN is required", "ADMIN_ID is required"} :
        \/ error = "BOT_TOKEN is required" /\ c.BOT_TOKEN \in {"unset", ""}
        \/ error = "ADMIN_ID is required" /\ c.ADMIN_ID = 0}

\* Config._validate_config: "not self.X" holds of None, "" and 0.
ConfigErrors(c) ==
    {error \in {"BOT_TOKEN is required", "ADMIN_ID is required", "UPI_ID is required"} :
        \/ error = "BOT_TOKEN is required" /\ c.BOT_TOKEN \in {"unset", ""}
        \/ error = "ADMIN_ID is required" /\ c.ADMIN_ID = 0
        \/ error = "UPI_ID is required" /\ c.UPI_ID \in {"unset", ""}}

Environments ==
    [BOT_TOKEN : {"unset", "", "token"},
     ADMIN_ID : {"unset", "abc", "0", "1"},
     UPI_ID : {"unset", "", "upi@bank"},
     RATE_LIMIT_SECONDS : {"unset", "x", "2"}]

\* The interpreter starts to run the module: no table, no handler, no lock.
InitStartup ==
    /\ env \in Environments
    /\ phase = "import"
    /\ faults = 0
    /\ retry_count = 0
    /\ shutdown_flag = FALSE
    /\ users = [u \in UserIds |-> NoUser]
    /\ payments = <<>>
    /\ referrals = <<>>
    /\ content = <<>>
    /\ user_last_action = [u \in UserIds |-> NoKey]
    /\ now = 0
    /\ pc = [t \in Threads |-> "idle"]
    /\ loc = [t \in Threads |-> NoLocals]
    /\ credits = [k \in 1..MaxPayments |-> 0]
    /\ bonuses = [p \in UserIds \X UserIds |-> 0]
    /\ lock = "free"
    /\ call = [t \in LockThreads |-> "out"]
    /\ events = 0

\* config = Config(): a ValueError of _validate_config is printed and the
\* process ends with sys.exit(1).
ConfigInit ==
    /\ phase = "import"
    /\ phase' = IF ConfigErrors(ConfigOf(env)) # {} THEN "exit" ELSE "configured"
    /\ UNCHANGED <<db, user_last_action, now, pc, loc, credits, bonuses, events, lock,
                   call, env, faults, retry_count, shutdown_flag>>

\* setup_logging(): logging.FileHandler('logs/error.log', level=logging.ERROR)
\* raises TypeError (FileHandler takes no level argument), which nothing
\* catches: the interpreter prints the traceback and ends before
\* db = Database() and before any handler is registered.
SetupLogging ==
    /\ phase = "configured"
    /\ phase' = "crashed"
    /\ UNCHANGED <<db, user_last_action, now, pc, loc, credits, bonuses, events, lock,
                   call, env, faults, retry_count, shutdown_flag>>

\* The module-level code from the first line to setup_logging, for every
\* environment.
SpecStartup == InitStartup /\ [][ConfigInit \/ SetupLogging]_vars

-----------------------------------------------------------------------------
(* The mutex layer: Database._lock in execute_query and backup_database,   *)
(* called by main(), by the worker threads and by signal_handler           *)

LockFrame == <<db, user_last_action, now, pc, credits, bonuses, env, faults, retry_count>>

\* main() has passed initialize_bot: health_check() is next, the Database
\* object exists (init_database has taken and released the lock).
InitLock ==
    /\ users = [u \in UserIds |-> NoUser]
    /\ payments = <<>>
    /\ referrals = <<>>
    /\ content = <<>>
    /\ user_last_action = [u \in UserIds |-> NoKey]
    /\ now = 0
    /\ pc = [t \in Threads |-> "idle"]
    /\ loc = [t \in Threads |-> NoLocals]
    /\ credits = [k \in 1..MaxPayments |-> 0]
    /\ bonuses = [p \in UserIds \X UserIds |-> 0]
    /\ lock = "free"
    /\ call = [t \in LockThreads |-> "out"]
    /\ env = FullEnv
    /\ phase = "health_check"
    /\ faults = 0
    /\ retry_count = 0
    /\ shutdown_flag = FALSE
    /\ events = MaxLockCalls

\* main() reaches "with self._lock": db.execute_query("SELECT 1") of
\* health_check, then db.backup_database() for the initial backup.
MainRequest ==
    /\ phase \in {"health_check", "backup"}
    /\ call["main"] = "out"
    /\ call' = [call EXCEPT !["main"] = "waiting"]
    /\ UNCHANGED <<LockFrame, loc, events, lock, phase, shutdown_flag>>

\* A handler running on worker t reaches "with self._lock" of execute_query;
\* the workers run while main() polls.
WorkerRequest(t) ==
    /\ phase = "polling"
    /\ call[t] = "out"
    /\ events > 0
    /\ events' = events - 1
    /\ call' = [call EXCEPT ![t] = "waiting"]
    /\ UNCHANGED <<LockFrame, loc, lock, phase, shutdown_flag>>

\* threading.Lock.acquire returns when the lock is free.
Acquire(t) ==
    /\ phase # "exited"
    /\ call[t] \in {"waiting", "sig_waiting"}
    /\ lock = "free"
    /\ lock' = t
    /\ call' = [call EXCEPT ![t] = IF call[t] = "waiting" THEN "holding"
                                   ELSE "sig_holding"]
    /\ UNCHANGED <<LockFrame, loc, events, phase, shutdown_flag>>

\* The with block of execute_query on a worker ends: commit and the rows, the
\* except branch of sqlite3.Error or of Exception (rollback, []), or
\* get_connection raising before the try; the lock is released on each.
WorkerRelease(t, outcome) ==
    /\ phase # "exited"
    /\ call[t] = "holding"
    /\ lock' = "free"
    /\ call' = [call EXCEPT ![t] = "out"]
    /\ loc' = [loc EXCEPT ![t].reply = outcome]
    /\ UNCHANGED <<LockFrame, events, phase, shutdown_flag>>

\* The with block of main()'s call ends, normally or by an exception that
\* health_check or backup_database catches; main() goes on to the next call
\* and then to its polling loop.
MainRelease ==
    /\ call["main"] = "holding"
    /\ lock' = "free"
    /\ call' = [call EXCEPT !["main"] = "out"]
    /\ phase' = IF phase = "health_check" THEN "backup" ELSE "loop"
    /\ UNCHANGED <<LockFrame, loc, events, shutdown_flag>>

\* SIGINT or SIGTERM: signal_handler runs on the main thread, on top of
\* whatever frame main() is in, sets shutdown_flag and calls
\* db.backup_database(), which reaches "with self._lock".  The interrupted
\* frame does not run until it returns.
Signal ==
    /\ phase # "exited"
    /\ call["main"] \in {"out", "waiting", "holding"}
    /\ shutdown_flag' = TRUE
    /\ call' = [call EXCEPT !["main"] = "sig_waiting"]
    /\ UNCHANGED <<LockFrame, loc, events, lock, phase>>

\* The with block of the handler's backup_database ends, then sys.exit(0).
SignalRelease ==
    /\ call["main"] = "sig_holding"
    /\ lock' = "free"
    /\ call' = [call EXCEPT !["main"] = "out"]
    /\ phase' = "exited"
    /\ UNCHANGED <<LockFrame, loc, events, shutdown_flag>>

\* while retry_count < max_retries and not shutdown_flag.is_set(): the loop
\* body starts with bot.infinity_polling, after the loop main() returns.
LoopTest ==
    /\ phase = "loop"
    /\ call["main"] = "out"
    /\ phase' = IF retry_count < max_retries /\ ~shutdown_flag THEN "polling" ELSE "stopped"
    /\ UNCHANGED <<LockFrame, loc, events, lock, call, shutdown_flag>>

\* bot.infinity_polling raises: the failure is counted; below the limit
\* main() goes on to sleep and to initialize_bot, at the limit it breaks.
PollingRaises ==
    /\ phase = "polling"
    /\ call["main"] = "out"
    /\ retry_count' = retry_count + 1
    /\ phase' = IF retry_count' < max_retries THEN "backoff" ELSE "stopped"
    /\ UNCHANGED <<db, user_last_action, now, pc, credits, bonuses, env, faults,
                   loc, events, lock, call, shutdown_flag>>

\* bot.infinity_polling returns (the library was told to stop polling): the
\* try block is done, no except branch runs, the while test is next.
PollingReturns ==
    /\ phase = "polling"
    /\ call["main"] = "out"
    /\ phase' = "loop"
    /\ UNCHANGED <<LockFrame, loc, events, lock, call, shutdown_flag>>

\* time.sleep(wait_time), then initialize_bot() returns True or returns False
\* ("continue"): the while test is next in both cases.
Reinitialize ==
    /\ phase = "backoff"
    /\ call["main"] = "out"
    /\ phase' = "loop"
    /\ UNCHANGED <<LockFrame, loc, events, lock, call, shutdown_flag>>

LockNext ==
    \/ MainRequest
    \/ MainRelease
    \/ LoopTest
    \/ PollingRaises
    \/ PollingReturns
    \/ Reinitialize
    \/ Signal
    \/ SignalRelease
    \/ \E t \in LockThreads : Acquire(t)
    \/ \E t \in Threads : WorkerRequest(t)
    \/ \E t \in Threads, outcome \in {"ok", "sqlite3.Error", "Exception", "raised"} :
           WorkerRelease(t, outcome)

\* main() from health_check on: its calls into Database, its polling loop and
\* the workers' calls, with a termination signal at any moment.
SpecLock == InitLock /\ [][LockNext]_vars

\* The same process on a scheduler that lets every thread that can take its
\* next step take it: a thread waiting for the free lock gets it, a with block
\* ends, main() goes on between its calls.  Signals, polling failures and the
\* arrival of events are up to the environment.
SpecLockFair ==
    /\ SpecLock
    /\ \A t \in LockThreads : WF_vars(Acquire(t))
    /\ \A t \in Threads :
           WF_vars(\E outcome \in {"ok", "sqlite3.Error", "Exception", "raised"} :
                       WorkerRelease(t, outcome))
    /\ WF_vars(MainRequest)
    /\ WF_vars(MainRelease)
    /\ WF_vars(SignalRelease)
    /\ WF_vars(LoopTest)
    /\ WF_vars(Reinitialize)

-----------------------------------------------------------------------------
(* safe_bot_action: the retry loop around a bot action *)

\* What one call of the decorated function does: it returns, or it raises an
\* ApiTelegramException with an error code (429 rate limited, 403 blocked,
\* 400 bad request, 500 for every other code), or another Exception.
Outcomes == {"none", "429", "403", "400", "500", "Exception"}

\* wrapper(*args, **kwargs) returns or raises: the loop is left.
Leave(t, reply, error) ==
    Goto(t, "idle", [NoLocals EXCEPT !.op = "action", !.reply = reply,
                                     !.attempt = loc[t].attempt, !.error = error])

\* The next value of "for attempt in range(config.MAX_RETRIES)", or the
\* "return None" after the loop when the range is used up.
NextAttempt(t, error) ==
    IF loc[t].attempt + 1 < MAX_RETRIES
    THEN Goto(t, "sba_call", [loc[t] EXCEPT !.attempt = @ + 1, !.error = error])
    ELSE Leave(t, "None", error)

\* A function decorated with safe_bot_action is called on worker t.
ActionDispatch(t) ==
    /\ FreeWorker(t)
    /\ events' = events - 1
    /\ Goto(t, "sba_call", [NoLocals EXCEPT !.op = "action"])
    /\ UNCHANGED <<db, user_last_action, now, credits, bonuses, outside>>

\* One pass of the loop body: "return func(*args, **kwargs)" and the except
\* clauses.
ActionCall(t, outcome) ==
    /\ pc[t] = "sba_call"
    /\ IF outcome = "none" THEN Leave(t, "result", outcome)
       ELSE IF outcome = "429" THEN NextAttempt(t, outcome)   \* sleep, continue
       ELSE IF outcome \in {"403", "400"} THEN Leave(t, "None", outcome)
       ELSE IF loc[t].attempt = MAX_RETRIES - 1 THEN Leave(t, "raised", outcome)
       ELSE NextAttempt(t, outcome)
    /\ UNCHANGED <<db, user_last_action, now, credits, bonuses, events, outside>>

RetryNext(t) ==
    \/ ActionDispatch(t)
    \/ \E outcome \in Outcomes : ActionCall(t, outcome)

\* The empty database and a polling bot, for a run of decorated bot actions.
InitRetry ==
    /\ users = [u \in UserIds |-> NoUser]
    /\ payments = <<>>
    /\ referrals = <<>>
    /\ user_last_action = [u \in UserIds |-> NoKey]
    /\ now = 0
    /\ pc = [t \in Threads |-> "idle"]
    /\ loc = [t \in Threads |-> NoLocals]
    /\ credits = [k \in 1..MaxPayments |-> 0]
    /\ bonuses = [p \in UserIds \X UserIds |-> 0]
    /\ content = <<>>
    /\ Serving
    /\ events = MaxRetryEvents

\* Bot actions under safe_bot_action, each call of the action with any outcome.
SpecRetry == InitRetry /\ [][\E t \in Threads : RetryNext(t)]_vars

ProofNext(t) ==
    \/ \E u \in UserIds, data \in BuyData : BuyDispatch(t, u, data)
    \/ BuyInsert(t)
    \/ BuySelect(t)
    \/ \E u \in UserIds : PhotoDispatch(t, u)
    \/ RateLimitSet(t)
    \/ PhotoSelect(t)

\* Purchases and payment proofs of registered accounts, as the seconds pass.
SpecProof == InitLedger /\ [][Tick \/ \E t \in Threads : ProofNext(t)]_vars

-----------------------------------------------------------------------------
(* Properties *)

Registered == {u \in UserIds : users[u].reg}
Terminal(k) == payments[k].status \in {"verified", "rejected"}
Decided(t, op) == Idle(t) /\ loc[t].op = op /\ loc[t].payment_id \in PaymentIds

\* C1: once every admin decision has completed, a payment has been credited
\* to its owner by /verify exactly once if its status is verified, and not at
\* all if its status is pending or rejected.
C1_CreditedIffVerifiedOnce ==
    Quiescent =>
        \A k \in PaymentIds :
            credits[k] = IF payments[k].status = "verified" THEN 1 ELSE 0

\* C2: of two /verify invocations on the same payment that both ran to the
\* end and left it verified, one made the transition and the single credit,
\* and the other was answered AlreadyProcessed.
C2_ConcurrentSettleOnce ==
    \A t1, t2 \in Threads :
        (/\ t1 # t2
         /\ Decided(t1, "verify") /\ Decided(t2, "verify")
         /\ loc[t1].payment_id = loc[t2].payment_id
         /\ payments[loc[t1].payment_id].status = "verified"
         /\ loc[t1].reply = "verified")
        => /\ loc[t2].reply = "already_processed"
           /\ credits[loc[t1].payment_id] = 1

\* C3: of a /verify and a /reject on the same payment that both ran to the
\* end and decided it, exactly one took effect and the other was answered
\* AlreadyProcessed; the owner is credited only if the payment ends verified.
C3_DecisionRaceOneWinner ==
    \A t1, t2 \in Threads :
        (/\ t1 # t2
         /\ Decided(t1, "verify") /\ Decided(t2, "reject")
         /\ loc[t1].payment_id = loc[t2].payment_id
         /\ Terminal(loc[t1].payment_id))
        => /\ (loc[t1].reply = "verified") # (loc[t2].reply = "rejected")
           /\ loc[t1].reply = "verified" => payments[loc[t1].payment_id].status = "verified"
           /\ loc[t2].reply = "rejected" => payments[loc[t2].payment_id].status = "rejected"
           /\ credits[loc[t1].payment_id] > 0 => payments[loc[t1].payment_id].status = "verified"

\* C4: a step changes a payment's status only from pending to verified or to
\* rejected, never out of verified or rejected, and removes no payment.
C4_StatusTransitions ==
    [][/\ Len(payments') >= Len(payments)
       /\ \A k \in PaymentIds :
              \/ payments'[k].status = payments[k].status
              \/ /\ payments[k].status = "pending"
                 /\ payments'[k].status \in {"verified", "rejected"}]_vars

\* C5: a /verify or /reject that finds its payment already verified or
\* rejected answers AlreadyProcessed and ends there, changing no payment row
\* and no account; and a decided payment never reads pending again, so a call
\* made on a decided payment always finds it decided.
C5_DecidedPaymentNoOp ==
    [][/\ \A t \in Threads :
              (/\ pc[t] \in {"v_select", "r_select"}
               /\ pc'[t] # pc[t]
               /\ loc[t].payment_id \in PaymentIds
               /\ Terminal(loc[t].payment_id))
              => /\ pc'[t] = "idle"
                 /\ loc'[t].reply = "already_processed"
                 /\ payments' = payments
                 /\ users' = users
       /\ \A k \in PaymentIds :
              Terminal(k) => payments'[k].status # "pending"]_vars

\* C5 witness: a decision on a decided payment was answered AlreadyProcessed.
C5_Witness ==
    \E t \in Threads :
        /\ Idle(t) /\ loc[t].op \in {"verify", "reject"}
        /\ loc[t].seen \in {"verified", "rejected"}
        /\ loc[t].reply = "already_processed"

\* C6: in no state does a payment read verified while /verify has not yet
\* credited its owner.
C6_VerifiedImpliesCredited ==
    \A k \in PaymentIds : payments[k].status = "verified" => credits[k] >= 1

\* C7: when every operation has completed, every account has
\* tokens = total_earned - total_spent.
C7_BalanceConservedAtRest ==
    Quiescent =>
        \A u \in Registered :
            users[u].tokens = users[u].total_earned - users[u].total_spent

\* C8: no committed state has an account's balance updated without its
\* lifetime counter: tokens = total_earned - total_spent in every state.
C8_BalanceCounterAtomic ==
    \A u \in Registered :
        users[u].tokens = users[u].total_earned - users[u].total_spent

\* C9: no account's balance is negative in any committed state.
C9_BalanceNonNegative ==
    \A u \in Registered : users[u].tokens >= 0

\* C10: the debit of /admin_tokens remove (a positive amount) is not applied
\* when its amount exceeds the balance the account has at the moment it is
\* applied.
C10_DebitGuardAtApply ==
    [][\A t \in Threads :
           (/\ pc[t] = "ut_tokens" /\ pc'[t] = "ut_stats"
            /\ loc[t].op = "tokens" /\ loc[t].action = "remove"
            /\ loc[t].amount > 0
            /\ loc[t].amount > users[loc[t].user_id].tokens)
           => users' = users]_vars

-----------------------------------------------------------------------------
(* Registration and referrals *)

Pairs == UserIds \X UserIds

RECURSIVE SumOver(_, _)
SumOver(S, f) ==
    IF S = {} THEN 0
    ELSE LET x == CHOOSE y \in S : TRUE
         IN  f[x] + SumOver(S \ {x}, f)

\* Rows of referrals for the pair (referrer_id, referred_id).
ReferralRows(referrer_id, referred_id) ==
    {i \in 1..Len(referrals) : /\ referrals[i].referrer_id = referrer_id
                               /\ referrals[i].referred_id = referred_id}

\* SUM(tokens_earned) over the referrals rows naming r as the referrer.
RowsEarned(r) ==
    SumOver({i \in 1..Len(referrals) : referrals[i].referrer_id = r},
            [i \in 1..Len(referrals) |-> referrals[i].tokens_earned])

\* The tokens add_referral_bonus has credited to r.
BonusesCredited(r) ==
    SumOver({r} \X UserIds, [p \in Pairs |-> bonus_tokens * bonuses[p]])

\* Thread t takes the step at label.
Steps(t, label) == pc[t] = label /\ pc'[t] # label

\* C11: for every pair (referrer, referred) there is at most one referrals
\* row, and the referrer has been credited the bonus for the pair at most
\* once, whatever /start events were delivered, twice or concurrently.
C11_ReferralOncePerPair ==
    \A p \in Pairs :
        /\ Cardinality(ReferralRows(p[1], p[2])) <= 1
        /\ bonuses[p] <= 1

\* C12: in every committed state, the referral bonuses credited to an
\* account equal the sum of tokens_earned over the referrals rows naming it
\* as referrer: no credit without its row, no row without its credit.
C12_BonusAndRowAtomic ==
    \A r \in UserIds : BonusesCredited(r) = RowsEarned(r)

\* C13: a /start whose parameter resolves to the registering account itself
\* sets no referrer, and a registration without referrer inserts no referrals
\* row and credits nobody; no referrals row has referrer_id = referred_id and
\* no account is credited a bonus for itself.
C13_NoSelfReferral ==
    [][/\ \A t \in Threads :
              /\ (/\ Steps(t, "s_referrer")
                  /\ loc[t].user_id \in get_user_by_referral(loc[t].param))
                 => loc'[t].referred_by = NULL
              /\ (Steps(t, "s_insert") /\ loc[t].referred_by = NULL)
                 => /\ pc'[t] \notin {"rb_existing", "rb_credit", "rb_insert"}
                    /\ referrals' = referrals
                    /\ bonuses' = bonuses
                    /\ \A u \in UserIds \ {loc[t].user_id} :
                           users'[u].reg => users'[u] = users[u]
       /\ \A i \in 1..Len(referrals') :
              referrals'[i].referrer_id # referrals'[i].referred_id
       /\ \A u \in UserIds : bonuses'[<<u, u>>] = 0]_vars

\* C13 witness: the lookup of a /start carrying the sender's own referral
\* code has run, and the handler goes on without a referrer.
C13_Witness ==
    \E t \in Threads :
        /\ pc[t] = "s_get_user"
        /\ loc[t].param # ""
        /\ loc[t].user_id \in get_user_by_referral(loc[t].param)
        /\ loc[t].referred_by = NULL

\* C14: the handler of a /start that arrived when its account already had a
\* row changes no account (referral code, balance, lifetime counters,
\* referred_by) and no referrals row, and credits nobody.
C14_RegistrationIdempotent ==
    [][\A t \in Threads :
           (/\ pc'[t] # pc[t]
            /\ loc[t].op = "start"
            /\ loc[t].existed)
           => /\ users' = users
              /\ referrals' = referrals
              /\ bonuses' = bonuses]_vars

\* C15: an account row, once there, is there in every later state, and no
\* step of a registration changes the balance or the lifetime counters of an
\* account that has a row.
C15_AccountPersists ==
    [][\A u \in UserIds :
           users[u].reg =>
               /\ users'[u].reg
               /\ (\E t \in Threads : Steps(t, "s_insert"))
                  => /\ users'[u].tokens = users[u].tokens
                     /\ users'[u].total_earned = users[u].total_earned
                     /\ users'[u].total_spent = users[u].total_spent]_vars

\* C16: no two accounts share a referral code, an account keeps the code it
\* was given, and a registration that generates a code already held leaves
\* the holder's row as it is.
C16_ReferralCodeUniqueStable ==
    [][/\ \A u, v \in UserIds :
              (u # v /\ users'[u].reg /\ users'[v].reg)
              => users'[u].referral_code # users'[v].referral_code
       /\ \A u \in UserIds :
              users[u].reg => /\ users'[u].reg
                              /\ users'[u].referral_code = users[u].referral_code
       /\ \A t \in Threads :
              Steps(t, "s_insert") =>
                  \A u \in UserIds \ {loc[t].user_id} : users'[u] = users[u]]_vars

-----------------------------------------------------------------------------
(* Approval, rejection and purchase *)

\* Thread t takes a step of the handler of op (the dispatch and the return
\* included: the op stays on record after the return).
HandlerStep(t, op) == pc'[t] # pc[t] /\ loc'[t].op = op

\* The handler of /verify leaves every balance but the owner's as it is, and
\* the owner's too outside its credit.
VerifyTouchesOwnerOnly(t) ==
    /\ (HandlerStep(t, "verify") /\ pc[t] # "ut_tokens")
       => \A u \in UserIds : users'[u].tokens = users[u].tokens
    /\ (HandlerStep(t, "verify") /\ pc[t] = "ut_tokens")
       => \A u \in UserIds \ {payments[loc[t].payment_id].user_id} :
              users'[u] = users[u]

C19_RejectBalanceFrame ==
    [][\A t \in Threads :
           HandlerStep(t, "reject") =>
               \A u \in UserIds :
                   /\ users'[u].tokens = users[u].tokens
                   /\ users'[u].total_earned = users[u].total_earned
                   /\ users'[u].total_spent = users[u].total_spent]_vars

\* C19 witness: a /reject has rejected a payment of an account that holds
\* tokens.
C19_Witness ==
    \E t \in Threads :
        /\ Decided(t, "reject") /\ loc[t].reply = "rejected"
        /\ payments[loc[t].payment_id].status = "rejected"
        /\ users[payments[loc[t].payment_id].user_id].tokens > 0

\* C20: every payment row is created pending with an (amount, tokens) pair
\* of the package table; a purchase request with a key outside the table
\* creates no payment, and a request with a key of the table creates exactly
\* one.
C20_PaymentCreation ==
    [][/\ \A k \in 1..Len(payments') :
              k \notin PaymentIds =>
                  /\ payments'[k].status = "pending"
                  /\ <<payments'[k].amount, payments'[k].tokens>>
                         \in {<<10, 100>>, <<45, 500>>, <<80, 1000>>, <<150, 2000>>}
       /\ \A t \in Threads :
              /\ (HandlerStep(t, "buy") /\ loc'[t].reply = "invalid_package")
                 => payments' = payments
              /\ Steps(t, "p_insert") => Len(payments') = Len(payments) + 1
              /\ (pc'[t] # pc[t] /\ pc[t] # "p_insert")
                 => Len(payments') = Len(payments)]_vars

\* The pending payments of an account, and the one created last: id is
\* INTEGER PRIMARY KEY AUTOINCREMENT, so the order of creation is the order of ids.
PendingOf(user_id) ==
    {k \in PaymentIds : payments[k].user_id = user_id /\ payments[k].status = "pending"}

LastCreated(S) == CHOOSE k \in S : \A j \in S : j <= k

\* C21: the reference in the payment instructions of every purchase request
\* carries the id of the payment that request inserted and the id of the
\* account that made the request.
C21_ReferenceNamesOwnPayment ==
    [][\A t \in Threads :
           Steps(t, "p_select") =>
               /\ loc[t].created # 0
               /\ loc'[t].payment_id = loc[t].created
               /\ loc'[t].user_id = loc[t].caller]_vars

\* C22: a payment proof changes no payment and no account; from an account
\* without a pending payment it is answered "no pending payments" and nothing
\* is relayed, and a relayed payment is the pending payment the account
\* created last.
C22_ProofRelaysLatestPending ==
    [][\A t \in Threads :
           Steps(t, "ph_select") =>
               /\ payments' = payments
               /\ users' = users
               /\ PendingOf(loc[t].user_id) = {} => loc'[t].reply = "no_pending"
               /\ loc'[t].reply = "relayed" =>
                      /\ PendingOf(loc[t].user_id) # {}
                      /\ loc'[t].payment_id = LastCreated(PendingOf(loc[t].user_id))]_vars

\* C23: a content request of a registered account whose balance is below the
\* item's price is answered "insufficient" with needed_tokens = price - balance,
\* and no step of the request changes an account or a content row.
C23_InsufficientReportsShortfall ==
    [][\A t \in Threads :
           /\ HandlerStep(t, "preview") => users' = users /\ content' = content
           /\ Steps(t, "c_get_user") =>
                  \A k \in ActiveContent(loc[t].deeplink) :
                      LET balance == users[loc[t].user_id].tokens
                          price == content[k].tokens_required
                      IN  (users[loc[t].user_id].reg /\ balance < price)
                          => /\ loc'[t].reply = "insufficient"
                             /\ loc'[t].needed_tokens = price - balance]_vars

\* C23 witness: an account that holds 3 tokens has asked for an item priced at
\* 10 and was told that 7 are missing; it still holds 3 and the item has no view.
C23_Witness ==
    \E t \in Threads :
        /\ Idle(t) /\ loc[t].op = "preview" /\ loc[t].reply = "insufficient"
        /\ loc[t].needed_tokens = 7
        /\ users[loc[t].user_id].tokens = 3
        /\ \E k \in ActiveContent(loc[t].deeplink) :
               content[k].tokens_required = 10 /\ content[k].views = 0

\* Worker t takes a content_ callback and serves it to its end.
Unlocks(t) ==
    /\ FreeWorker(t)
    /\ events' = events - 1
    /\ pc'[t] = "idle"
    /\ loc'[t].op = "unlock"

\* C24: a content_ callback either takes exactly the item's price from the
\* caller and adds one to the item's views, or leaves every balance as it was;
\* it changes nothing else.
C24_UnlockDebitsAndCountsOrNothing ==
    [][\A t \in Threads :
           Unlocks(t) =>
               \/ users' = users /\ content' = content
               \/ \E k \in ActiveContent(loc'[t].deeplink) :
                      /\ users' = AddTokens(loc'[t].user_id, 0 - content[k].tokens_required)
                      /\ content' = [content EXCEPT ![k].views = @ + 1]]_vars

\* C24 witness: an account that holds the price of an item, 10 tokens, has
\* pressed its "Access Content" button; the callback has ended and the account
\* holds 10 tokens.
C24_Witness ==
    \E t \in Threads :
        /\ Idle(t) /\ loc[t].op = "unlock" /\ loc[t].reply = "error"
        /\ loc[t].current_tokens = 10
        /\ users[loc[t].user_id].tokens = 10
        /\ \E k \in ActiveContent(loc[t].deeplink) :
               content[k].tokens_required = 10 /\ content[k].views = 0

\* C30: after every step no two content rows have the same deeplink, every
\* row that was there is still there with the deeplink it had, and no row's
\* views have gone down.
C30_DeeplinkUniqueStableViewsMonotone ==
    [][/\ \A j, k \in 1..Len(content') :
              j # k => content'[j].deeplink # content'[k].deeplink
       /\ \A k \in ContentIds :
              /\ k <= Len(content')
              /\ content'[k].deeplink = content[k].deeplink
              /\ content'[k].views >= content[k].views]_vars

\* C30 witness: the admin has uploaded twice with the same deeplink, both
\* uploads were answered as successful, and the table holds one row.
C30_Witness ==
    /\ users[ADMIN_ID].reg
    /\ Len(content) = 1
    /\ \A t \in Threads :
           /\ Idle(t) /\ loc[t].op = "upload" /\ loc[t].reply = "uploaded"
           /\ loc[t].deeplink = content[1].deeplink

\* The statement worker t is about to run is a write that fails: the UPDATE
\* payments ... verified_by = ADMIN_ID of /verify or /reject when the admin has
\* no users row (foreign key), which execute_query rolls back.
FailedWrite(t) ==
    /\ pc[t] \in {"v_update", "r_update"}
    /\ ~users[ADMIN_ID].reg

\* C25: when a storage step of a settlement or a rejection fails, the
\* operation stops there, reports a failure, and the tables are as they were.
C25_FailedStepAbortsOperation ==
    [][\A t \in Threads :
           (pc'[t] # pc[t] /\ FailedWrite(t)) =>
               /\ users' = users /\ payments' = payments /\ referrals' = referrals
               /\ pc'[t] = "idle"
               /\ loc'[t].reply = "error"]_vars

\* C26: when the notification of a settlement, a rejection or an admin token
\* operation cannot be delivered, the handler ends with the reply it had
\* decided on and changes no payment and no account.
C26_NotificationFailureKeepsLedger ==
    [][\A t \in Threads :
           Steps(t, "n_failed") =>
               /\ payments' = payments
               /\ users' = users
               /\ pc'[t] = "idle"
               /\ loc'[t].reply = loc[t].reply]_vars

\* C26 witness: a /verify has marked a payment verified and credited its
\* owner, and the message that tells the owner could not be delivered.
C26_Witness ==
    \E t \in Threads :
        /\ pc[t] = "n_failed" /\ loc[t].op = "verify"
        /\ payments[loc[t].payment_id].status = "verified"
        /\ credits[loc[t].payment_id] = 1
        /\ users[loc[t].user_id].tokens >= payments[loc[t].payment_id].tokens

AdminOps == {"verify", "reject", "tokens", "upload", "admin_callback"}

\* C28: the step that takes an admin command or an admin_ callback changes no
\* table and lets only ADMIN_ID into the handler, and every later step of an
\* admin handler belongs to a call ADMIN_ID made: no payment status and no
\* balance is changed by an admin operation for another caller.
C28_AdminOperationsOnlyForAdmin ==
    [][\A t \in Threads :
           /\ (FreeWorker(t) /\ events' = events - 1 /\ loc'[t].op \in AdminOps)
              => /\ users' = users /\ payments' = payments /\ content' = content
                 /\ pc'[t] # "idle" => loc'[t].caller = ADMIN_ID
           /\ (pc[t] # "idle" /\ pc'[t] # pc[t] /\ loc[t].op \in AdminOps)
              => loc[t].caller = ADMIN_ID]_vars

\* C28 witness: a /verify of another user than the admin was answered
\* "Access denied" while the payment it named was pending; it is still pending
\* and its owner holds what they held.
C28_Witness ==
    \E t \in Threads :
        /\ Idle(t) /\ loc[t].op = "verify" /\ loc[t].reply = "denied"
        /\ payments[1].status = "pending"
        /\ users[2].tokens = 0

\* C27: no thread waits for the database mutex while it holds it, and the
\* mutex is held only by a thread that is inside a with block, which ends by
\* releasing it; so a thread that waits is not kept waiting by itself.
C27_MutexNeverRequestedByHolder ==
    /\ \A t \in LockThreads :
           call[t] \in {"waiting", "sig_waiting"} => lock # t
    /\ lock # "free" => call[lock] \in {"holding", "sig_holding"}

\* C29: when the environment lacks the admin id or the payment recipient (the
\* price table and the referral bonus are written in the code and there is no
\* starting balance to configure), the start-up ends in sys.exit(1) with no
\* table touched and no handler started, and nothing runs after that exit.
C29_StartupRequiresConfiguration ==
    [][/\ (phase = "import" /\ (env.ADMIN_ID = "unset" \/ env.UPI_ID = "unset"))
          => /\ phase' = "exit"
             /\ UNCHANGED <<db, pc, loc, lock, call>>
       /\ phase # "exit"]_vars

\* C29 witness: the start-up has ended in sys.exit(1) in an environment that
\* has the bot token and the admin id and lacks UPI_ID.
C29_Witness ==
    /\ phase = "exit"
    /\ env.BOT_TOKEN = "token" /\ env.ADMIN_ID = "1" /\ env.UPI_ID = "unset"

\* C31: no account is the referred party of two referral rows, the referrer of
\* a row is the referred_by stored in the referred account's row, and a row is
\* inserted only by the /start that found no account for its sender.
C31_OneReferralPerReferredAccount ==
    [][/\ \A i, j \in 1..Len(referrals') :
              referrals'[i].referred_id = referrals'[j].referred_id => i = j
       /\ \A i \in 1..Len(referrals') :
              users'[referrals'[i].referred_id].referred_by = referrals'[i].referrer_id
       /\ \A t \in Threads :
              (Steps(t, "rb_insert") /\ referrals' # referrals) => ~loc[t].existed]_vars

\* C32: in every state a payment has verified_by and verified_at exactly when
\* its status is not pending, and a rejection_reason only when its status is
\* rejected.
C32_StampsMatchStatus ==
    \A k \in PaymentIds :
        /\ (payments[k].verified_by # NULL) <=> (payments[k].status # "pending")
        /\ payments[k].verified_at <=> (payments[k].status # "pending")
        /\ payments[k].rejection_reason # "" => payments[k].status = "rejected"

\* C33: the balance UPDATE of /admin_tokens set <user> <n> leaves the account
\* with exactly n tokens, the new balance the handler reports.
C33_SetStoresAmount ==
    [][\A t \in Threads :
           (Steps(t, "ut_tokens") /\ loc[t].op = "tokens" /\ loc[t].action = "set")
           => users'[loc[t].user_id].tokens = loc[t].amount]_vars

\* C34: the statements of /admin_tokens add never lower the account's balance
\* and touch total_spent not at all, and those of /admin_tokens remove never
\* raise the balance and touch total_earned not at all, whatever integer the
\* command carries.
C34_AddRaisesRemoveLowers ==
    [][\A t \in Threads :
           (pc'[t] # pc[t] /\ pc[t] \in {"ut_tokens", "ut_stats"} /\ loc[t].op = "tokens")
           => LET old == users[loc[t].user_id]
                  new == users'[loc[t].user_id]
              IN  /\ loc[t].action = "add"
                     => /\ new.tokens >= old.tokens
                        /\ new.total_earned >= old.total_earned
                        /\ new.total_spent = old.total_spent
                  /\ loc[t].action = "remove"
                     => /\ new.tokens <= old.tokens
                        /\ new.total_spent >= old.total_spent
                        /\ new.total_earned = old.total_earned]_vars

\* The rate_limit wrapper of thread t calls func(message): from its check, when
\* the wait notice raised, or after recording the time of the call.
LetThrough(t) ==
    /\ pc[t] \in {"idle", "rl_set"}
    /\ pc'[t] \notin {"idle", "rl_set"}
    /\ loc'[t].op \in {"start", "photo", "preview"}

\* C35: a command the rate_limit wrapper lets through to its handler comes at
\* least RATE_LIMIT_SECONDS after the last one of the same user it let through
\* (the time user_last_action holds), and a command it turns away with the wait
\* notice leaves user_last_action as it was.
C35_LetThroughSpaced ==
    [][\A t \in Threads :
           /\ LetThrough(t)
              => LET last == user_last_action[loc'[t].user_id]
                 IN  \/ last = NoKey
                     \/ loc'[t].current_time - last >= RATE_LIMIT_SECONDS
           /\ (pc[t] = "idle" /\ pc'[t] = "idle" /\ loc'[t].reply = "rate_limited")
              => user_last_action' = user_last_action]_vars

\* C36: for one inbound event the rate_limit wrapper calls the handler once:
\* no handler that the wrapper's try called is called again from its except
\* branch.
C36_HandlerRunsOnce ==
    [][\A t \in Threads :
           ~(loc[t].wrapper = "try" /\ loc'[t].wrapper = "except")]_vars

\* C37: safe_bot_action calls the wrapped action at most MAX_RETRIES times; it
\* returns the result of the first call that succeeds, returns None when a
\* call fails with API error 403 or 400, and raises when the last call of the
\* range fails with anything else, never returning None then.
C37_RetriesThenRaises ==
    \A t \in Threads :
        loc[t].op = "action"
        => /\ loc[t].attempt < MAX_RETRIES
           /\ pc[t] = "idle"
              => /\ loc[t].error = "none" => loc[t].reply = "result"
                 /\ loc[t].error \in {"403", "400"} => loc[t].reply = "None"
                 /\ loc[t].error \notin {"none", "403", "400"}
                    => /\ loc[t].attempt = MAX_RETRIES - 1
                       /\ loc[t].reply = "raised"

\* C38: the polling loop of main() counts every restart: whenever
\* bot.infinity_polling ends and the process goes on, retry_count has grown by
\* one; retry_count never exceeds 5, the fifth failure ends the loop, and the
\* while test ends the loop when the shutdown flag is set.
C38_PollingLoopCounts ==
    [][/\ (phase = "polling" /\ phase' \notin {"polling", "exited"})
          => retry_count' = retry_count + 1
       /\ retry_count' <= max_retries
       /\ (phase = "polling" /\ retry_count' = max_retries) => phase' = "stopped"
       /\ (phase = "loop" /\ shutdown_flag /\ phase' # "loop") => phase' = "stopped"]_vars

\* C39: once a termination signal has been delivered (signal_handler has set
\* the shutdown flag and gone for the final backup), the process eventually
\* exits, wherever the signal found the main thread and the workers.
C39_SignalLeadsToExit ==
    shutdown_flag ~> (phase = "exited")

====
